---- MODULE Spec2Model ----
(***************************************************************************)
(* The type declaration language front end of src/parse/parser.py: the     *)
(* PLY lexer PyLexer, the LALR(1) parser PyParser that yacc.yacc builds    *)
(* from the p_* rules, the semantic actions that assemble the declaration  *)
(* tree, and make_syntax_error.                                            *)
(*                                                                         *)
(* A Python string is a tuple of one-character strings; offsets into it    *)
(* are 0-based as in the source (the character at offset i is d[i + 1]).   *)
(***************************************************************************)
EXTENDS Integers, Sequences, FiniteSets, TLC

(***************************************************************************)
(* Strings                                                                 *)
(***************************************************************************)
NL == "\n"
\* The backquote character, spelled out: the character itself cannot be
\* written in a string of this module.
BQ == "backquote"

Ch(d, i) == d[i + 1]

\* d[i:j]
Slice(d, i, j) == [n \in 1..(j - i) |-> d[i + n]]

\* d.rfind(c, start, end): the highest offset in [start, end) holding c, or -1.
rfind(d, c, start, end) ==
  LET hits == {i \in start..(end - 1) : i < Len(d) /\ Ch(d, i) = c}
  IN  IF hits = {} THEN -1 ELSE CHOOSE i \in hits : \A j \in hits : j <= i

\* d.find(c, start): the lowest offset >= start holding c, or -1.
find(d, c, start) ==
  LET hits == {i \in start..(Len(d) - 1) : Ch(d, i) = c}
  IN  IF hits = {} THEN -1 ELSE CHOOSE i \in hits : \A j \in hits : i <= j

\* d.partition(c)[0]: the text before the first c, all of d when there is none.
partition_head(d, c) ==
  IF find(d, c, 0) < 0 THEN d ELSE Slice(d, 0, find(d, c, 0))

\* d.count(c)
count(d, c) == Cardinality({i \in 1..Len(d) : d[i] = c})

\* The end (exclusive) of the longest run of characters of S that starts at i.
RunEnd(d, i, S) ==
  LET stops == {j \in i..Len(d) : j = Len(d) \/ Ch(d, j) \notin S}
  IN  CHOOSE j \in stops : \A k \in stops : j <= k

(***************************************************************************)
(* PyLexer: the token rules                                                *)
(***************************************************************************)
Lower == {"a", "b", "c", "d", "e", "f", "g", "h", "i", "j", "k", "l", "m",
          "n", "o", "p", "q", "r", "s", "t", "u", "v", "w", "x", "y", "z"}
Upper == {"A", "B", "C", "D", "E", "F", "G", "H", "I", "J", "K", "L", "M",
          "N", "O", "P", "Q", "R", "S", "T", "U", "V", "W", "X", "Y", "Z"}
Digit == {"0", "1", "2", "3", "4", "5", "6", "7", "8", "9"}
NameStart == Lower \cup Upper \cup {"_"}
NameChar == NameStart \cup Digit \cup {"."}

t_ignore == {" ", "\t"}

\* The rules given as strings, in the order PLY tries them: longest regular
\* expression first.  The keyword rules (t_CLASS, t_DEF, t_INTERFACE, t_PASS,
\* t_RAISE) come after t_NAME, which matches every text they match.
literals ==
  << [text |-> <<"-", ">">>, type |-> "ARROW"],
     [text |-> <<"<", "=">>, type |-> "SUBCLASS"],
     [text |-> <<"*">>, type |-> "ASTERISK"],
     [text |-> <<".">>, type |-> "DOT"],
     [text |-> <<"[">>, type |-> "LBRACKET"],
     [text |-> <<"(">>, type |-> "LPAREN"],
     [text |-> <<"+">>, type |-> "PLUS"],
     [text |-> <<"?">>, type |-> "QUESTION"],
     [text |-> <<"]">>, type |-> "RBRACKET"],
     [text |-> <<")">>, type |-> "RPAREN"],
     [text |-> <<"|">>, type |-> "UNION"],
     [text |-> <<"@">>, type |-> "AT"],
     [text |-> <<":">>, type |-> "COLON"],
     [text |-> <<",">>, type |-> "COMMA"],
     [text |-> <<"&">>, type |-> "INTERSECT"],
     [text |-> <<"-">>, type |-> "MINUS"] >>

reserved ==
  << [text |-> <<"c", "l", "a", "s", "s">>, type |-> "CLASS"],
     [text |-> <<"d", "e", "f">>, type |-> "DEF"],
     [text |-> <<"i", "n", "t", "e", "r", "f", "a", "c", "e">>, type |-> "INTERFACE"],
     [text |-> <<"p", "a", "s", "s">>, type |-> "PASS"],
     [text |-> <<"r", "a", "i", "s", "e">>, type |-> "RAISE"] >>

\* self.reserved.get(v, 'NAME')
reserved_get(v) ==
  IF \E n \in DOMAIN reserved : reserved[n].text = v
  THEN reserved[CHOOSE n \in DOMAIN reserved : reserved[n].text = v].type
  ELSE "NAME"

\* Each Match* gives the end (exclusive) of the rule's match at offset i, or -1.
\* ([a-zA-Z_][a-zA-Z0-9_\.]*), or a backquote, [^backquote]*, a backquote
MatchNAME(d, i) ==
  IF Ch(d, i) \in NameStart THEN RunEnd(d, i + 1, NameChar)
  ELSE IF Ch(d, i) = BQ /\ find(d, BQ, i + 1) >= 0 THEN find(d, BQ, i + 1) + 1
  ELSE -1

\* A quote, ([^q]|\\q)*, the same quote, for q the single or the double quote:
\* [^q] takes a backslash too, so the match ends at the first q after the
\* opening one.
MatchSTRING(d, i) ==
  IF Ch(d, i) \in {"'", "\""} /\ find(d, Ch(d, i), i + 1) >= 0
  THEN find(d, Ch(d, i), i + 1) + 1
  ELSE -1

\* [-+]?[0-9]+(\.[0-9]*)?
MatchNUMBER(d, i) ==
  LET s == IF Ch(d, i) \in {"-", "+"} THEN i + 1 ELSE i
      e == RunEnd(d, s, Digit)
  IN  IF e = s THEN -1
      ELSE IF e < Len(d) /\ Ch(d, e) = "." THEN RunEnd(d, e + 1, Digit)
      ELSE e

\* \#.*  (. matches no newline)
MatchCOMMENT(d, i) ==
  IF Ch(d, i) # "#" THEN -1
  ELSE IF find(d, NL, i) < 0 THEN Len(d) ELSE find(d, NL, i)

\* \n+
Matchnewline(d, i) ==
  IF Ch(d, i) # NL THEN -1 ELSE RunEnd(d, i, {NL})

StartsWith(d, i, text) ==
  /\ i + Len(text) <= Len(d)
  /\ Slice(d, i, i + Len(text)) = text

\* The first string rule that matches at i (0 when none does).
MatchLiteral(d, i) ==
  LET hits == {n \in DOMAIN literals : StartsWith(d, i, literals[n].text)}
  IN  IF hits = {} THEN 0 ELSE CHOOSE n \in hits : \A m \in hits : n <= m

\* Which rule of the master regular expression matches at i: the function
\* rules in definition order, then the string rules.
RuleAt(d, i) ==
  IF MatchNAME(d, i) >= 0 THEN "t_NAME"
  ELSE IF MatchSTRING(d, i) >= 0 THEN "t_STRING"
  ELSE IF MatchNUMBER(d, i) >= 0 THEN "t_NUMBER"
  ELSE IF MatchCOMMENT(d, i) >= 0 THEN "t_COMMENT"
  ELSE IF Matchnewline(d, i) >= 0 THEN "t_newline"
  ELSE IF MatchLiteral(d, i) > 0 THEN "literal"
  ELSE "t_error"

\* The lexer skips the characters of t_ignore before it tries the rules.
SkipIgnore(d, i) == RunEnd(d, i, t_ignore)

DigitVal(c) ==
  CASE c = "0" -> 0 [] c = "1" -> 1 [] c = "2" -> 2 [] c = "3" -> 3
    [] c = "4" -> 4 [] c = "5" -> 5 [] c = "6" -> 6 [] c = "7" -> 7
    [] c = "8" -> 8 [] c = "9" -> 9

RECURSIVE DigitsVal(_)
DigitsVal(ds) ==
  IF ds = <<>> THEN 0
  ELSE 10 * DigitsVal(SubSeq(ds, 1, Len(ds) - 1)) + DigitVal(ds[Len(ds)])

\* int(text)
int(text) ==
  IF text[1] = "-" THEN 0 - DigitsVal(Tail(text))
  ELSE IF text[1] = "+" THEN DigitsVal(Tail(text))
  ELSE DigitsVal(text)

\* float(text): the decimal num / 10^scale, kept as the pair (not normalised).
float(text) ==
  LET dot == find(text, ".", 0)
      whole == Slice(text, 0, dot)
      frac == Slice(text, dot + 1, Len(text))
  IN  [k |-> "float", num |-> int(whole \o frac), scale |-> Len(frac)]

\* t_NUMBER's value
NumberValue(text) ==
  IF find(text, ".", 0) >= 0 THEN float(text) ELSE [k |-> "int", num |-> int(text)]

\* t_NAME's value and type
NameValue(text) == IF text[1] = BQ THEN Slice(text, 1, Len(text) - 1) ELSE text
NameType(text) == IF text[1] = BQ THEN "NAME" ELSE reserved_get(text)

\* t_STRING's value, eval(text), for a literal with no backslash in it: the
\* text between the quotes.  A literal that holds a newline is no Python
\* string literal, and eval raises its own SyntaxError.
EvalFails(text) == find(text, NL, 0) >= 0
StringValue(text) == Slice(text, 1, Len(text) - 1)

(***************************************************************************)
(* pytd: the declaration tree's node constructors (plain value objects)    *)
(***************************************************************************)
None == [k |-> "None"]
TypeDeclUnit(interfacedefs, classdefs, funcdefs) ==
  [k |-> "TypeDeclUnit", interfacedefs |-> interfacedefs,
   classdefs |-> classdefs, funcdefs |-> funcdefs]
\* The template expansion pass, run on the finished tree: it keeps the
\* unit's three lists.
ExpandTemplates(unit, rev_templates) == unit
Class(name, parents, funcs, template) ==
  [k |-> "Class", name |-> name, parents |-> parents, funcs |-> funcs,
   template |-> template]
Interface(name, parents, attrs, template) ==
  [k |-> "Interface", name |-> name, parents |-> parents, attrs |-> attrs,
   template |-> template]
Function(name, params, return_type, exceptions, template, provenance, signature) ==
  [k |-> "Function", name |-> name, params |-> params,
   return_type |-> return_type, exceptions |-> exceptions,
   template |-> template, provenance |-> provenance, signature |-> signature]
MinimalFunction(name) == [k |-> "MinimalFunction", name |-> name]
TemplateItem(name, within_type, level) ==
  [k |-> "TemplateItem", name |-> name, within_type |-> within_type,
   level |-> level]
ConstantDef(name, type) == [k |-> "ConstantDef", name |-> name, type |-> type]
ExceptionDef(containing_type) ==
  [k |-> "ExceptionDef", containing_type |-> containing_type]
Parameter(name, type) == [k |-> "Parameter", name |-> name, type |-> type]
BasicType(containing_type) ==
  [k |-> "BasicType", containing_type |-> containing_type]
ConstType(value) == [k |-> "ConstType", value |-> value]
NoneAbleType(base_type) == [k |-> "NoneAbleType", base_type |-> base_type]
UnionType(type_list) == [k |-> "UnionType", type_list |-> type_list]
IntersectionType(type_list) ==
  [k |-> "IntersectionType", type_list |-> type_list]
GenericType1(base_type, type1) ==
  [k |-> "GenericType1", base_type |-> base_type, type1 |-> type1]
GenericType2(base_type, type1, type2) ==
  [k |-> "GenericType2", base_type |-> base_type, type1 |-> type1,
   type2 |-> type2]
UnknownType == [k |-> "UnknownType"]
OptionalUnknownType == [k |-> "OptionalUnknownType"]
VarArgType == [k |-> "VarArgType"]
VarKeywordArgType == [k |-> "VarKeywordArgType"]

\* isinstance(x, pytd.<cls>): the node classes do not derive from one another.
isinstance(x, cls) == x.k = cls

(***************************************************************************)
(* PyParser: the semantic actions.  p is <<p[1], ..., p[n]>>, the values   *)
(* of the rule's right-hand side; the operator's value is p[0].            *)
(***************************************************************************)
p_defs(p) == ExpandTemplates(TypeDeclUnit(p[3], p[2], p[1]), <<>>)
p_classdefs(p) == Append(p[1], p[2])
p_classdefs_null(p) == <<>>
p_classdef(p) == Class(p[3], p[4], p[6], p[2])
p_class_funcs(p) == p[1]
p_class_funcs_pass(p) == <<>>
p_interfacedefs(p) == Append(p[1], p[2])
p_interfacedefs_null(p) == <<>>
p_interfacedef(p) == Interface(p[3], p[4], p[6], p[2])
p_parents(p) == p[2]
p_parents_null(p) == <<>>
p_parent_list_multi(p) == Append(p[1], p[3])
p_parent_list_1(p) == <<p[1]>>
p_template(p) == p[2]
p_template_null(p) == <<>>
p_templates_multi(p) == Append(p[1], p[3])
p_templates_1(p) == <<p[1]>>
p_template_item(p) ==
  TemplateItem(p[1], BasicType(<<"o", "b", "j", "e", "c", "t">>), 0)
p_template_item_subclss(p) == TemplateItem(p[1], p[3], 0)
p_interface_attrs(p) == Append(p[1], MinimalFunction(p[3]))
p_interface_attrs_null(p) == <<MinimalFunction(p[2])>>
p_funcdefs_func(p) == Append(p[1], p[2])
\* p_funcdefs_constant, had it stored the constant in the list
p_funcdefs_constant_stores(p) == Append(p[1], p[2])
p_funcdefs_constant(p) == p[1]
p_funcdefs_null(p) == <<>>
p_constantdef(p) == ConstantDef(p[1], p[2])
p_funcdef(p) == Function(p[4], p[6], p[8], p[9], p[3], p[1], p[10])
p_return(p) == p[2]
p_return_null(p) == BasicType(<<"N", "o", "n", "e">>)
p_params_multi(p) == Append(p[1], p[3])
p_arg(p) == Parameter(p[2].name, VarArgType)
p_kwarg(p) == Parameter(p[3].name, VarKeywordArgType)
p_params_arg(p) == Append(p[1], p[3])
p_params_kwarg(p) == Append(p[1], p[3])
p_params_arg_kwarg(p) == p[1] \o <<p[3], p[5]>>
p_params_only_arg(p) == <<p[1]>>
p_params_only_kwarg(p) == <<p[1]>>
p_params_only_arg_kwarg(p) == <<p[1], p[3]>>
p_params_1(p) == <<p[1]>>
p_params_null(p) == <<>>
p_param(p) == Parameter(p[1], UnknownType)
p_param_optional(p) == Parameter(p[1], OptionalUnknownType)
p_param_and_type(p) == Parameter(p[1], p[3])
p_raise(p) == p[2]
p_raise_null(p) == <<>>
p_exceptions_1(p) == <<p[1]>>
p_exceptions_multi(p) == Append(p[1], p[3])
p_exception(p) == ExceptionDef(p[1])
p_identifier_name_optional(p) == NoneAbleType(BasicType(p[1]))
p_identifier_name(p) == BasicType(p[1])
p_identifier_string(p) == ConstType(p[1])
p_identifier_number(p) == ConstType(p[1])

p_compound_type_intersect(p) ==
  IF isinstance(p[1], "IntersectionType") /\ isinstance(p[3], "BasicType")
  THEN IntersectionType(Append(p[1].type_list, p[3]))
  ELSE IF isinstance(p[1], "BasicType") /\ isinstance(p[3], "IntersectionType")
  THEN IntersectionType(<<p[1]>> \o p[3].type_list)
  ELSE IntersectionType(<<p[1], p[3]>>)

\* p_compound_type_union without its second branch (the prepending one)
p_compound_type_union_no_prepend(p) ==
  IF isinstance(p[1], "UnionType") /\ isinstance(p[3], "BasicType")
  THEN UnionType(Append(p[1].type_list, p[3]))
  ELSE UnionType(<<p[1], p[3]>>)

p_compound_type_union(p) ==
  IF isinstance(p[1], "UnionType") /\ isinstance(p[3], "BasicType")
  THEN UnionType(Append(p[1].type_list, p[3]))
  ELSE IF isinstance(p[1], "BasicType") /\ isinstance(p[3], "UnionType")
  THEN UnionType(<<p[1]>> \o p[3].type_list)
  ELSE UnionType(<<p[1], p[3]>>)

\* p_compound_type_generic_1 with the base taken from the wrong symbol
p_compound_type_generic_1_base_from_arg(p) == GenericType1(p[3], p[3])
\* p_compound_type_generic_2 with its two arguments exchanged
p_compound_type_generic_2_swapped(p) == GenericType2(p[1], p[5], p[3])
p_compound_type_generic_1(p) == GenericType1(p[1], p[3])
p_compound_type_generic_2(p) == GenericType2(p[1], p[3], p[5])
p_compound_type_paren(p) == p[2]
p_compound_type_identifier(p) == p[1]
p_provenance_approved(p) == <<>>
p_provenance_inferred(p) == <<".", ".", ".">>
p_provenance_negated(p) == <<"-", "-", "-">>
p_provenance_locked(p) == <<"+", "+", "+">>
p_signature_(p) == p[2]
p_signature_none(p) == None

\* The call of the rule's function that yacc makes on a reduction.
SemanticAction(name, p) ==
  CASE name = "p_defs" -> p_defs(p)
    [] name = "p_classdefs" -> p_classdefs(p)
    [] name = "p_classdefs_null" -> p_classdefs_null(p)
    [] name = "p_classdef" -> p_classdef(p)
    [] name = "p_class_funcs" -> p_class_funcs(p)
    [] name = "p_class_funcs_pass" -> p_class_funcs_pass(p)
    [] name = "p_interfacedefs" -> p_interfacedefs(p)
    [] name = "p_interfacedefs_null" -> p_interfacedefs_null(p)
    [] name = "p_interfacedef" -> p_interfacedef(p)
    [] name = "p_parents" -> p_parents(p)
    [] name = "p_parents_null" -> p_parents_null(p)
    [] name = "p_parent_list_multi" -> p_parent_list_multi(p)
    [] name = "p_parent_list_1" -> p_parent_list_1(p)
    [] name = "p_template" -> p_template(p)
    [] name = "p_template_null" -> p_template_null(p)
    [] name = "p_templates_multi" -> p_templates_multi(p)
    [] name = "p_templates_1" -> p_templates_1(p)
    [] name = "p_template_item" -> p_template_item(p)
    [] name = "p_template_item_subclss" -> p_template_item_subclss(p)
    [] name = "p_interface_attrs" -> p_interface_attrs(p)
    [] name = "p_interface_attrs_null" -> p_interface_attrs_null(p)
    [] name = "p_funcdefs_func" -> p_funcdefs_func(p)
    [] name = "p_funcdefs_constant" -> p_funcdefs_constant(p)
    [] name = "p_funcdefs_null" -> p_funcdefs_null(p)
    [] name = "p_constantdef" -> p_constantdef(p)
    [] name = "p_funcdef" -> p_funcdef(p)
    [] name = "p_return" -> p_return(p)
    [] name = "p_return_null" -> p_return_null(p)
    [] name = "p_params_multi" -> p_params_multi(p)
    [] name = "p_arg" -> p_arg(p)
    [] name = "p_kwarg" -> p_kwarg(p)
    [] name = "p_params_arg" -> p_params_arg(p)
    [] name = "p_params_kwarg" -> p_params_kwarg(p)
    [] name = "p_params_arg_kwarg" -> p_params_arg_kwarg(p)
    [] name = "p_params_only_arg" -> p_params_only_arg(p)
    [] name = "p_params_only_kwarg" -> p_params_only_kwarg(p)
    [] name = "p_params_only_arg_kwarg" -> p_params_only_arg_kwarg(p)
    [] name = "p_params_1" -> p_params_1(p)
    [] name = "p_params_null" -> p_params_null(p)
    [] name = "p_param" -> p_param(p)
    [] name = "p_param_optional" -> p_param_optional(p)
    [] name = "p_param_and_type" -> p_param_and_type(p)
    [] name = "p_raise" -> p_raise(p)
    [] name = "p_raise_null" -> p_raise_null(p)
    [] name = "p_exceptions_1" -> p_exceptions_1(p)
    [] name = "p_exceptions_multi" -> p_exceptions_multi(p)
    [] name = "p_exception" -> p_exception(p)
    [] name = "p_identifier_name_optional" -> p_identifier_name_optional(p)
    [] name = "p_identifier_name" -> p_identifier_name(p)
    [] name = "p_identifier_string" -> p_identifier_string(p)
    [] name = "p_identifier_number" -> p_identifier_number(p)
    [] name = "p_compound_type_intersect" -> p_compound_type_intersect(p)
    [] name = "p_compound_type_union" -> p_compound_type_union(p)
    [] name = "p_compound_type_generic_1" -> p_compound_type_generic_1(p)
    [] name = "p_compound_type_generic_2" -> p_compound_type_generic_2(p)
    [] name = "p_compound_type_paren" -> p_compound_type_paren(p)
    [] name = "p_compound_type_identifier" -> p_compound_type_identifier(p)
    [] name = "p_provenance_approved" -> p_provenance_approved(p)
    [] name = "p_provenance_inferred" -> p_provenance_inferred(p)
    [] name = "p_provenance_negated" -> p_provenance_negated(p)
    [] name = "p_provenance_locked" -> p_provenance_locked(p)
    [] name = "p_signature_" -> p_signature_(p)
    [] name = "p_signature_none" -> p_signature_none(p)

(***************************************************************************)
(* PyParser: the grammar.  Productions[n] is rule n of the grammar, the    *)
(* docstring of the p_* function named, numbered in definition order as    *)
(* yacc numbers them (rule 0 is the added S' -> defs).                     *)
(***************************************************************************)
tokens ==
  {"ARROW", "ASTERISK", "AT", "COLON", "COMMA", "DOT", "INTERSECT",
   "LBRACKET", "LPAREN", "MINUS", "NAME", "NUMBER", "PLUS", "QUESTION",
   "RBRACKET", "RPAREN", "STRING", "SUBCLASS", "UNION",
   "CLASS", "DEF", "INTERFACE", "PASS", "RAISE"}

\* precedence with its two lines exchanged
precedence_swapped == << <<"left", "INTERSECT">>, <<"left", "UNION">> >>
precedence == << <<"left", "UNION">>, <<"left", "INTERSECT">> >>

Productions ==
  <<
    [name |-> "p_defs", lhs |-> "defs", rhs |-> <<"funcdefs", "classdefs", "interfacedefs">>],   \* 1
    [name |-> "p_classdefs", lhs |-> "classdefs", rhs |-> <<"classdefs", "classdef">>],   \* 2
    [name |-> "p_classdefs_null", lhs |-> "classdefs", rhs |-> <<>>],   \* 3
    [name |-> "p_classdef", lhs |-> "classdef", rhs |-> <<"CLASS", "template", "NAME", "parents", "COLON", "class_funcs">>],   \* 4
    [name |-> "p_class_funcs", lhs |-> "class_funcs", rhs |-> <<"funcdefs">>],   \* 5
    [name |-> "p_class_funcs_pass", lhs |-> "class_funcs", rhs |-> <<"PASS">>],   \* 6
    [name |-> "p_interfacedefs", lhs |-> "interfacedefs", rhs |-> <<"interfacedefs", "interfacedef">>],   \* 7
    [name |-> "p_interfacedefs_null", lhs |-> "interfacedefs", rhs |-> <<>>],   \* 8
    [name |-> "p_interfacedef", lhs |-> "interfacedef", rhs |-> <<"INTERFACE", "template", "NAME", "parents", "COLON", "interface_attrs">>],   \* 9
    [name |-> "p_parents", lhs |-> "parents", rhs |-> <<"LPAREN", "parent_list", "RPAREN">>],   \* 10
    [name |-> "p_parents_null", lhs |-> "parents", rhs |-> <<>>],   \* 11
    [name |-> "p_parent_list_multi", lhs |-> "parent_list", rhs |-> <<"parent_list", "COMMA", "NAME">>],   \* 12
    [name |-> "p_parent_list_1", lhs |-> "parent_list", rhs |-> <<"NAME">>],   \* 13
    [name |-> "p_template", lhs |-> "template", rhs |-> <<"LBRACKET", "templates", "RBRACKET">>],   \* 14
    [name |-> "p_template_null", lhs |-> "template", rhs |-> <<>>],   \* 15
    [name |-> "p_templates_multi", lhs |-> "templates", rhs |-> <<"templates", "COMMA", "template_item">>],   \* 16
    [name |-> "p_templates_1", lhs |-> "templates", rhs |-> <<"template_item">>],   \* 17
    [name |-> "p_template_item", lhs |-> "template_item", rhs |-> <<"NAME">>],   \* 18
    [name |-> "p_template_item_subclss", lhs |-> "template_item", rhs |-> <<"NAME", "SUBCLASS", "compound_type">>],   \* 19
    [name |-> "p_interface_attrs", lhs |-> "interface_attrs", rhs |-> <<"interface_attrs", "DEF", "NAME">>],   \* 20
    [name |-> "p_interface_attrs_null", lhs |-> "interface_attrs", rhs |-> <<"DEF", "NAME">>],   \* 21
    [name |-> "p_funcdefs_func", lhs |-> "funcdefs", rhs |-> <<"funcdefs", "funcdef">>],   \* 22
    [name |-> "p_funcdefs_constant", lhs |-> "funcdefs", rhs |-> <<"funcdefs", "constantdef">>],   \* 23
    [name |-> "p_funcdefs_null", lhs |-> "funcdefs", rhs |-> <<>>],   \* 24
    [name |-> "p_constantdef", lhs |-> "constantdef", rhs |-> <<"NAME", "COLON", "compound_type">>],   \* 25
    [name |-> "p_funcdef", lhs |-> "funcdef", rhs |-> <<"provenance", "DEF", "template", "NAME", "LPAREN", "params", "RPAREN", "return", "raise", "signature">>],   \* 26
    [name |-> "p_return", lhs |-> "return", rhs |-> <<"ARROW", "compound_type">>],   \* 27
    [name |-> "p_return_null", lhs |-> "return", rhs |-> <<>>],   \* 28
    [name |-> "p_params_multi", lhs |-> "params", rhs |-> <<"params", "COMMA", "param">>],   \* 29
    [name |-> "p_arg", lhs |-> "arg", rhs |-> <<"ASTERISK", "param">>],   \* 30
    [name |-> "p_kwarg", lhs |-> "kwarg", rhs |-> <<"ASTERISK", "ASTERISK", "param">>],   \* 31
    [name |-> "p_params_arg", lhs |-> "params", rhs |-> <<"params", "COMMA", "arg">>],   \* 32
    [name |-> "p_params_kwarg", lhs |-> "params", rhs |-> <<"params", "COMMA", "kwarg">>],   \* 33
    [name |-> "p_params_arg_kwarg", lhs |-> "params", rhs |-> <<"params", "COMMA", "arg", "COMMA", "kwarg">>],   \* 34
    [name |-> "p_params_only_arg", lhs |-> "params", rhs |-> <<"arg">>],   \* 35
    [name |-> "p_params_only_kwarg", lhs |-> "params", rhs |-> <<"kwarg">>],   \* 36
    [name |-> "p_params_only_arg_kwarg", lhs |-> "params", rhs |-> <<"arg", "COMMA", "kwarg">>],   \* 37
    [name |-> "p_params_1", lhs |-> "params", rhs |-> <<"param">>],   \* 38
    [name |-> "p_params_null", lhs |-> "params", rhs |-> <<>>],   \* 39
    [name |-> "p_param", lhs |-> "param", rhs |-> <<"NAME">>],   \* 40
    [name |-> "p_param_optional", lhs |-> "param", rhs |-> <<"NAME", "QUESTION">>],   \* 41
    [name |-> "p_param_and_type", lhs |-> "param", rhs |-> <<"NAME", "COLON", "compound_type">>],   \* 42
    [name |-> "p_raise", lhs |-> "raise", rhs |-> <<"RAISE", "exceptions">>],   \* 43
    [name |-> "p_raise_null", lhs |-> "raise", rhs |-> <<>>],   \* 44
    [name |-> "p_exceptions_1", lhs |-> "exceptions", rhs |-> <<"exception">>],   \* 45
    [name |-> "p_exceptions_multi", lhs |-> "exceptions", rhs |-> <<"exceptions", "COMMA", "exception">>],   \* 46
    [name |-> "p_exception", lhs |-> "exception", rhs |-> <<"compound_type">>],   \* 47
    [name |-> "p_identifier_name_optional", lhs |-> "identifier", rhs |-> <<"NAME", "QUESTION">>],   \* 48
    [name |-> "p_identifier_name", lhs |-> "identifier", rhs |-> <<"NAME">>],   \* 49
    [name |-> "p_identifier_string", lhs |-> "identifier", rhs |-> <<"STRING">>],   \* 50
    [name |-> "p_identifier_number", lhs |-> "identifier", rhs |-> <<"NUMBER">>],   \* 51
    [name |-> "p_compound_type_intersect", lhs |-> "compound_type", rhs |-> <<"compound_type", "INTERSECT", "compound_type">>],   \* 52
    [name |-> "p_compound_type_union", lhs |-> "compound_type", rhs |-> <<"compound_type", "UNION", "compound_type">>],   \* 53
    [name |-> "p_compound_type_generic_1", lhs |-> "compound_type", rhs |-> <<"identifier", "LBRACKET", "compound_type", "RBRACKET">>],   \* 54
    [name |-> "p_compound_type_generic_2", lhs |-> "compound_type", rhs |-> <<"identifier", "LBRACKET", "compound_type", "COMMA", "compound_type", "RBRACKET">>],   \* 55
    [name |-> "p_compound_type_paren", lhs |-> "compound_type", rhs |-> <<"LPAREN", "compound_type", "RPAREN">>],   \* 56
    [name |-> "p_compound_type_identifier", lhs |-> "compound_type", rhs |-> <<"identifier">>],   \* 57
    [name |-> "p_provenance_approved", lhs |-> "provenance", rhs |-> <<>>],   \* 58
    [name |-> "p_provenance_inferred", lhs |-> "provenance", rhs |-> <<"DOT", "DOT", "DOT">>],   \* 59
    [name |-> "p_provenance_negated", lhs |-> "provenance", rhs |-> <<"MINUS", "MINUS", "MINUS">>],   \* 60
    [name |-> "p_provenance_locked", lhs |-> "provenance", rhs |-> <<"PLUS", "PLUS", "PLUS">>],   \* 61
    [name |-> "p_signature_", lhs |-> "signature", rhs |-> <<"AT", "STRING">>],   \* 62
    [name |-> "p_signature_none", lhs |-> "signature", rhs |-> <<>>]   \* 63
  >>

ActionTable ==
  <<
    ("$end" :> {-24} @@ "CLASS" :> {-24} @@ "DEF" :> {-24} @@ "DOT" :> {-24} @@ "INTERFACE" :> {-24} @@ "MINUS" :> {-24} @@ "NAME" :> {-24} @@ "PLUS" :> {-24}),   \* 0
    ("$end" :> {0}),   \* 1
    ("$end" :> {-3} @@ "CLASS" :> {-3} @@ "DEF" :> {-58} @@ "DOT" :> {3} @@ "INTERFACE" :> {-3} @@ "MINUS" :> {4} @@ "NAME" :> {5} @@ "PLUS" :> {6}),   \* 2
    ("DOT" :> {11}),   \* 3
    ("MINUS" :> {12}),   \* 4
    ("COLON" :> {13}),   \* 5
    ("PLUS" :> {14}),   \* 6
    ("$end" :> {-8} @@ "CLASS" :> {15} @@ "INTERFACE" :> {-8}),   \* 7
    ("$end" :> {-23} @@ "CLASS" :> {-23} @@ "DEF" :> {-23} @@ "DOT" :> {-23} @@ "INTERFACE" :> {-23} @@ "MINUS" :> {-23} @@ "NAME" :> {-23} @@ "PLUS" :> {-23}),   \* 8
    ("$end" :> {-22} @@ "CLASS" :> {-22} @@ "DEF" :> {-22} @@ "DOT" :> {-22} @@ "INTERFACE" :> {-22} @@ "MINUS" :> {-22} @@ "NAME" :> {-22} @@ "PLUS" :> {-22}),   \* 9
    ("DEF" :> {18}),   \* 10
    ("DOT" :> {19}),   \* 11
    ("MINUS" :> {20}),   \* 12
    ("LPAREN" :> {21} @@ "NAME" :> {22} @@ "NUMBER" :> {23} @@ "STRING" :> {24}),   \* 13
    ("PLUS" :> {27}),   \* 14
    ("LBRACKET" :> {28} @@ "NAME" :> {-15}),   \* 15
    ("$end" :> {-2} @@ "CLASS" :> {-2} @@ "INTERFACE" :> {-2}),   \* 16
    ("$end" :> {-1} @@ "INTERFACE" :> {30}),   \* 17
    ("LBRACKET" :> {28} @@ "NAME" :> {-15}),   \* 18
    ("DEF" :> {-59}),   \* 19
    ("DEF" :> {-60}),   \* 20
    ("LPAREN" :> {21} @@ "NAME" :> {22} @@ "NUMBER" :> {23} @@ "STRING" :> {24}),   \* 21
    ("$end" :> {-49} @@ "AT" :> {-49} @@ "CLASS" :> {-49} @@ "COMMA" :> {-49} @@ "DEF" :> {-49} @@ "DOT" :> {-49} @@ "INTERFACE" :> {-49} @@ "INTERSECT" :> {-49} @@ "LBRACKET" :> {-49} @@ "MINUS" :> {-49} @@ "NAME" :> {-49} @@ "PLUS" :> {-49} @@ "QUESTION" :> {34} @@ "RAISE" :> {-49} @@ "RBRACKET" :> {-49} @@ "RPAREN" :> {-49} @@ "UNION" :> {-49}),   \* 22
    ("$end" :> {-51} @@ "AT" :> {-51} @@ "CLASS" :> {-51} @@ "COMMA" :> {-51} @@ "DEF" :> {-51} @@ "DOT" :> {-51} @@ "INTERFACE" :> {-51} @@ "INTERSECT" :> {-51} @@ "LBRACKET" :> {-51} @@ "MINUS" :> {-51} @@ "NAME" :> {-51} @@ "PLUS" :> {-51} @@ "RAISE" :> {-51} @@ "RBRACKET" :> {-51} @@ "RPAREN" :> {-51} @@ "UNION" :> {-51}),   \* 23
    ("$end" :> {-50} @@ "AT" :> {-50} @@ "CLASS" :> {-50} @@ "COMMA" :> {-50} @@ "DEF" :> {-50} @@ "DOT" :> {-50} @@ "INTERFACE" :> {-50} @@ "INTERSECT" :> {-50} @@ "LBRACKET" :> {-50} @@ "MINUS" :> {-50} @@ "NAME" :> {-50} @@ "PLUS" :> {-50} @@ "RAISE" :> {-50} @@ "RBRACKET" :> {-50} @@ "RPAREN" :> {-50} @@ "UNION" :> {-50}),   \* 24
    ("$end" :> {-25} @@ "CLASS" :> {-25} @@ "DEF" :> {-25} @@ "DOT" :> {-25} @@ "INTERFACE" :> {-25} @@ "INTERSECT" :> {35} @@ "MINUS" :> {-25} @@ "NAME" :> {-25} @@ "PLUS" :> {-25} @@ "UNION" :> {36}),   \* 25
    ("$end" :> {-57} @@ "AT" :> {-57} @@ "CLASS" :> {-57} @@ "COMMA" :> {-57} @@ "DEF" :> {-57} @@ "DOT" :> {-57} @@ "INTERFACE" :> {-57} @@ "INTERSECT" :> {-57} @@ "LBRACKET" :> {37} @@ "MINUS" :> {-57} @@ "NAME" :> {-57} @@ "PLUS" :> {-57} @@ "RAISE" :> {-57} @@ "RBRACKET" :> {-57} @@ "RPAREN" :> {-57} @@ "UNION" :> {-57}),   \* 26
    ("DEF" :> {-61}),   \* 27
    ("NAME" :> {38}),   \* 28
    ("NAME" :> {41}),   \* 29
    ("LBRACKET" :> {28} @@ "NAME" :> {-15}),   \* 30
    ("$end" :> {-7} @@ "INTERFACE" :> {-7}),   \* 31
    ("NAME" :> {43}),   \* 32
    ("INTERSECT" :> {35} @@ "RPAREN" :> {44} @@ "UNION" :> {36}),   \* 33
    ("$end" :> {-48} @@ "AT" :> {-48} @@ "CLASS" :> {-48} @@ "COMMA" :> {-48} @@ "DEF" :> {-48} @@ "DOT" :> {-48} @@ "INTERFACE" :> {-48} @@ "INTERSECT" :> {-48} @@ "LBRACKET" :> {-48} @@ "MINUS" :> {-48} @@ "NAME" :> {-48} @@ "PLUS" :> {-48} @@ "RAISE" :> {-48} @@ "RBRACKET" :> {-48} @@ "RPAREN" :> {-48} @@ "UNION" :> {-48}),   \* 34
    ("LPAREN" :> {21} @@ "NAME" :> {22} @@ "NUMBER" :> {23} @@ "STRING" :> {24}),   \* 35
    ("LPAREN" :> {21} @@ "NAME" :> {22} @@ "NUMBER" :> {23} @@ "STRING" :> {24}),   \* 36
    ("LPAREN" :> {21} @@ "NAME" :> {22} @@ "NUMBER" :> {23} @@ "STRING" :> {24}),   \* 37
    ("COMMA" :> {-18} @@ "RBRACKET" :> {-18} @@ "SUBCLASS" :> {48}),   \* 38
    ("COMMA" :> {-17} @@ "RBRACKET" :> {-17}),   \* 39
    ("COMMA" :> {49} @@ "RBRACKET" :> {50}),   \* 40
    ("COLON" :> {-11} @@ "LPAREN" :> {51}),   \* 41
    ("NAME" :> {53}),   \* 42
    ("LPAREN" :> {54}),   \* 43
    ("$end" :> {-56} @@ "AT" :> {-56} @@ "CLASS" :> {-56} @@ "COMMA" :> {-56} @@ "DEF" :> {-56} @@ "DOT" :> {-56} @@ "INTERFACE" :> {-56} @@ "INTERSECT" :> {-56} @@ "MINUS" :> {-56} @@ "NAME" :> {-56} @@ "PLUS" :> {-56} @@ "RAISE" :> {-56} @@ "RBRACKET" :> {-56} @@ "RPAREN" :> {-56} @@ "UNION" :> {-56}),   \* 44
    ("$end" :> {-52} @@ "AT" :> {-52} @@ "CLASS" :> {-52} @@ "COMMA" :> {-52} @@ "DEF" :> {-52} @@ "DOT" :> {-52} @@ "INTERFACE" :> {-52} @@ "INTERSECT" :> {35, -52} @@ "MINUS" :> {-52} @@ "NAME" :> {-52} @@ "PLUS" :> {-52} @@ "RAISE" :> {-52} @@ "RBRACKET" :> {-52} @@ "RPAREN" :> {-52} @@ "UNION" :> {36, -52}),   \* 45
    ("$end" :> {-53} @@ "AT" :> {-53} @@ "CLASS" :> {-53} @@ "COMMA" :> {-53} @@ "DEF" :> {-53} @@ "DOT" :> {-53} @@ "INTERFACE" :> {-53} @@ "INTERSECT" :> {35, -53} @@ "MINUS" :> {-53} @@ "NAME" :> {-53} @@ "PLUS" :> {-53} @@ "RAISE" :> {-53} @@ "RBRACKET" :> {-53} @@ "RPAREN" :> {-53} @@ "UNION" :> {36, -53}),   \* 46
    ("COMMA" :> {55} @@ "INTERSECT" :> {35} @@ "RBRACKET" :> {56} @@ "UNION" :> {36}),   \* 47
    ("LPAREN" :> {21} @@ "NAME" :> {22} @@ "NUMBER" :> {23} @@ "STRING" :> {24}),   \* 48
    ("NAME" :> {38}),   \* 49
    ("NAME" :> {-14}),   \* 50
    ("NAME" :> {59}),   \* 51
    ("COLON" :> {61}),   \* 52
    ("COLON" :> {-11} @@ "LPAREN" :> {51}),   \* 53
    ("ASTERISK" :> {63} @@ "COMMA" :> {-39} @@ "NAME" :> {64} @@ "RPAREN" :> {-39}),   \* 54
    ("LPAREN" :> {21} @@ "NAME" :> {22} @@ "NUMBER" :> {23} @@ "STRING" :> {24}),   \* 55
    ("$end" :> {-54} @@ "AT" :> {-54} @@ "CLASS" :> {-54} @@ "COMMA" :> {-54} @@ "DEF" :> {-54} @@ "DOT" :> {-54} @@ "INTERFACE" :> {-54} @@ "INTERSECT" :> {-54} @@ "MINUS" :> {-54} @@ "NAME" :> {-54} @@ "PLUS" :> {-54} @@ "RAISE" :> {-54} @@ "RBRACKET" :> {-54} @@ "RPAREN" :> {-54} @@ "UNION" :> {-54}),   \* 56
    ("COMMA" :> {-19} @@ "INTERSECT" :> {35} @@ "RBRACKET" :> {-19} @@ "UNION" :> {36}),   \* 57
    ("COMMA" :> {-16} @@ "RBRACKET" :> {-16}),   \* 58
    ("COMMA" :> {-13} @@ "RPAREN" :> {-13}),   \* 59
    ("COMMA" :> {70} @@ "RPAREN" :> {71}),   \* 60
    ("$end" :> {-24} @@ "CLASS" :> {-24} @@ "DEF" :> {-24} @@ "DOT" :> {-24} @@ "INTERFACE" :> {-24} @@ "MINUS" :> {-24} @@ "NAME" :> {-24} @@ "PASS" :> {72} @@ "PLUS" :> {-24}),   \* 61
    ("COLON" :> {75}),   \* 62
    ("ASTERISK" :> {76} @@ "NAME" :> {64}),   \* 63
    ("COLON" :> {78} @@ "COMMA" :> {-40} @@ "QUESTION" :> {79} @@ "RPAREN" :> {-40}),   \* 64
    ("COMMA" :> {80, -35} @@ "RPAREN" :> {-35}),   \* 65
    ("COMMA" :> {-36} @@ "RPAREN" :> {-36}),   \* 66
    ("COMMA" :> {-38} @@ "RPAREN" :> {-38}),   \* 67
    ("COMMA" :> {81} @@ "RPAREN" :> {82}),   \* 68
    ("INTERSECT" :> {35} @@ "RBRACKET" :> {83} @@ "UNION" :> {36}),   \* 69
    ("NAME" :> {84}),   \* 70
    ("COLON" :> {-10}),   \* 71
    ("$end" :> {-6} @@ "CLASS" :> {-6} @@ "INTERFACE" :> {-6}),   \* 72
    ("$end" :> {-4} @@ "CLASS" :> {-4} @@ "INTERFACE" :> {-4}),   \* 73
    ("$end" :> {-5} @@ "CLASS" :> {-5} @@ "DEF" :> {-58} @@ "DOT" :> {3} @@ "INTERFACE" :> {-5} @@ "MINUS" :> {4} @@ "NAME" :> {5} @@ "PLUS" :> {6}),   \* 74
    ("DEF" :> {85}),   \* 75
    ("NAME" :> {64}),   \* 76
    ("COMMA" :> {-30} @@ "RPAREN" :> {-30}),   \* 77
    ("LPAREN" :> {21} @@ "NAME" :> {22} @@ "NUMBER" :> {23} @@ "STRING" :> {24}),   \* 78
    ("COMMA" :> {-41} @@ "RPAREN" :> {-41}),   \* 79
    ("ASTERISK" :> {89}),   \* 80
    ("ASTERISK" :> {63} @@ "NAME" :> {64}),   \* 81
    ("$end" :> {-28} @@ "ARROW" :> {94} @@ "AT" :> {-28} @@ "CLASS" :> {-28} @@ "DEF" :> {-28} @@ "DOT" :> {-28} @@ "INTERFACE" :> {-28} @@ "MINUS" :> {-28} @@ "NAME" :> {-28} @@ "PLUS" :> {-28} @@ "RAISE" :> {-28}),   \* 82
    ("$end" :> {-55} @@ "AT" :> {-55} @@ "CLASS" :> {-55} @@ "COMMA" :> {-55} @@ "DEF" :> {-55} @@ "DOT" :> {-55} @@ "INTERFACE" :> {-55} @@ "INTERSECT" :> {-55} @@ "MINUS" :> {-55} @@ "NAME" :> {-55} @@ "PLUS" :> {-55} @@ "RAISE" :> {-55} @@ "RBRACKET" :> {-55} @@ "RPAREN" :> {-55} @@ "UNION" :> {-55}),   \* 83
    ("COMMA" :> {-12} @@ "RPAREN" :> {-12}),   \* 84
    ("NAME" :> {96}),   \* 85
    ("$end" :> {-9} @@ "DEF" :> {97} @@ "INTERFACE" :> {-9}),   \* 86
    ("COMMA" :> {-31} @@ "RPAREN" :> {-31}),   \* 87
    ("COMMA" :> {-42} @@ "INTERSECT" :> {35} @@ "RPAREN" :> {-42} @@ "UNION" :> {36}),   \* 88
    ("ASTERISK" :> {76}),   \* 89
    ("COMMA" :> {-37} @@ "RPAREN" :> {-37}),   \* 90
    ("COMMA" :> {98, -32} @@ "RPAREN" :> {-32}),   \* 91
    ("COMMA" :> {-33} @@ "RPAREN" :> {-33}),   \* 92
    ("COMMA" :> {-29} @@ "RPAREN" :> {-29}),   \* 93
    ("LPAREN" :> {21} @@ "NAME" :> {22} @@ "NUMBER" :> {23} @@ "STRING" :> {24}),   \* 94
    ("$end" :> {-44} @@ "AT" :> {-44} @@ "CLASS" :> {-44} @@ "DEF" :> {-44} @@ "DOT" :> {-44} @@ "INTERFACE" :> {-44} @@ "MINUS" :> {-44} @@ "NAME" :> {-44} @@ "PLUS" :> {-44} @@ "RAISE" :> {100}),   \* 95
    ("$end" :> {-21} @@ "DEF" :> {-21} @@ "INTERFACE" :> {-21}),   \* 96
    ("NAME" :> {102}),   \* 97
    ("ASTERISK" :> {89}),   \* 98
    ("$end" :> {-27} @@ "AT" :> {-27} @@ "CLASS" :> {-27} @@ "DEF" :> {-27} @@ "DOT" :> {-27} @@ "INTERFACE" :> {-27} @@ "INTERSECT" :> {35} @@ "MINUS" :> {-27} @@ "NAME" :> {-27} @@ "PLUS" :> {-27} @@ "RAISE" :> {-27} @@ "UNION" :> {36}),   \* 99
    ("LPAREN" :> {21} @@ "NAME" :> {22} @@ "NUMBER" :> {23} @@ "STRING" :> {24}),   \* 100
    ("$end" :> {-63} @@ "AT" :> {107} @@ "CLASS" :> {-63} @@ "DEF" :> {-63} @@ "DOT" :> {-63} @@ "INTERFACE" :> {-63} @@ "MINUS" :> {-63} @@ "NAME" :> {-63} @@ "PLUS" :> {-63}),   \* 101
    ("$end" :> {-20} @@ "DEF" :> {-20} @@ "INTERFACE" :> {-20}),   \* 102
    ("COMMA" :> {-34} @@ "RPAREN" :> {-34}),   \* 103
    ("$end" :> {-47} @@ "AT" :> {-47} @@ "CLASS" :> {-47} @@ "COMMA" :> {-47} @@ "DEF" :> {-47} @@ "DOT" :> {-47} @@ "INTERFACE" :> {-47} @@ "INTERSECT" :> {35} @@ "MINUS" :> {-47} @@ "NAME" :> {-47} @@ "PLUS" :> {-47} @@ "UNION" :> {36}),   \* 104
    ("$end" :> {-45} @@ "AT" :> {-45} @@ "CLASS" :> {-45} @@ "COMMA" :> {-45} @@ "DEF" :> {-45} @@ "DOT" :> {-45} @@ "INTERFACE" :> {-45} @@ "MINUS" :> {-45} @@ "NAME" :> {-45} @@ "PLUS" :> {-45}),   \* 105
    ("$end" :> {-43} @@ "AT" :> {-43} @@ "CLASS" :> {-43} @@ "COMMA" :> {109} @@ "DEF" :> {-43} @@ "DOT" :> {-43} @@ "INTERFACE" :> {-43} @@ "MINUS" :> {-43} @@ "NAME" :> {-43} @@ "PLUS" :> {-43}),   \* 106
    ("STRING" :> {110}),   \* 107
    ("$end" :> {-26} @@ "CLASS" :> {-26} @@ "DEF" :> {-26} @@ "DOT" :> {-26} @@ "INTERFACE" :> {-26} @@ "MINUS" :> {-26} @@ "NAME" :> {-26} @@ "PLUS" :> {-26}),   \* 108
    ("LPAREN" :> {21} @@ "NAME" :> {22} @@ "NUMBER" :> {23} @@ "STRING" :> {24}),   \* 109
    ("$end" :> {-62} @@ "CLASS" :> {-62} @@ "DEF" :> {-62} @@ "DOT" :> {-62} @@ "INTERFACE" :> {-62} @@ "MINUS" :> {-62} @@ "NAME" :> {-62} @@ "PLUS" :> {-62}),   \* 110
    ("$end" :> {-46} @@ "AT" :> {-46} @@ "CLASS" :> {-46} @@ "COMMA" :> {-46} @@ "DEF" :> {-46} @@ "DOT" :> {-46} @@ "INTERFACE" :> {-46} @@ "MINUS" :> {-46} @@ "NAME" :> {-46} @@ "PLUS" :> {-46})   \* 111
  >>

GotoTable ==
  <<
    ("defs" :> 1 @@ "funcdefs" :> 2),   \* 0
    <<>>,   \* 1
    ("classdefs" :> 7 @@ "constantdef" :> 8 @@ "funcdef" :> 9 @@ "provenance" :> 10),   \* 2
    <<>>,   \* 3
    <<>>,   \* 4
    <<>>,   \* 5
    <<>>,   \* 6
    ("classdef" :> 16 @@ "interfacedefs" :> 17),   \* 7
    <<>>,   \* 8
    <<>>,   \* 9
    <<>>,   \* 10
    <<>>,   \* 11
    <<>>,   \* 12
    ("compound_type" :> 25 @@ "identifier" :> 26),   \* 13
    <<>>,   \* 14
    ("template" :> 29),   \* 15
    <<>>,   \* 16
    ("interfacedef" :> 31),   \* 17
    ("template" :> 32),   \* 18
    <<>>,   \* 19
    <<>>,   \* 20
    ("compound_type" :> 33 @@ "identifier" :> 26),   \* 21
    <<>>,   \* 22
    <<>>,   \* 23
    <<>>,   \* 24
    <<>>,   \* 25
    <<>>,   \* 26
    <<>>,   \* 27
    ("template_item" :> 39 @@ "templates" :> 40),   \* 28
    <<>>,   \* 29
    ("template" :> 42),   \* 30
    <<>>,   \* 31
    <<>>,   \* 32
    <<>>,   \* 33
    <<>>,   \* 34
    ("compound_type" :> 45 @@ "identifier" :> 26),   \* 35
    ("compound_type" :> 46 @@ "identifier" :> 26),   \* 36
    ("compound_type" :> 47 @@ "identifier" :> 26),   \* 37
    <<>>,   \* 38
    <<>>,   \* 39
    <<>>,   \* 40
    ("parents" :> 52),   \* 41
    <<>>,   \* 42
    <<>>,   \* 43
    <<>>,   \* 44
    <<>>,   \* 45
    <<>>,   \* 46
    <<>>,   \* 47
    ("compound_type" :> 57 @@ "identifier" :> 26),   \* 48
    ("template_item" :> 58),   \* 49
    <<>>,   \* 50
    ("parent_list" :> 60),   \* 51
    <<>>,   \* 52
    ("parents" :> 62),   \* 53
    ("arg" :> 65 @@ "kwarg" :> 66 @@ "param" :> 67 @@ "params" :> 68),   \* 54
    ("compound_type" :> 69 @@ "identifier" :> 26),   \* 55
    <<>>,   \* 56
    <<>>,   \* 57
    <<>>,   \* 58
    <<>>,   \* 59
    <<>>,   \* 60
    ("class_funcs" :> 73 @@ "funcdefs" :> 74),   \* 61
    <<>>,   \* 62
    ("param" :> 77),   \* 63
    <<>>,   \* 64
    <<>>,   \* 65
    <<>>,   \* 66
    <<>>,   \* 67
    <<>>,   \* 68
    <<>>,   \* 69
    <<>>,   \* 70
    <<>>,   \* 71
    <<>>,   \* 72
    <<>>,   \* 73
    ("constantdef" :> 8 @@ "funcdef" :> 9 @@ "provenance" :> 10),   \* 74
    ("interface_attrs" :> 86),   \* 75
    ("param" :> 87),   \* 76
    <<>>,   \* 77
    ("compound_type" :> 88 @@ "identifier" :> 26),   \* 78
    <<>>,   \* 79
    ("kwarg" :> 90),   \* 80
    ("arg" :> 91 @@ "kwarg" :> 92 @@ "param" :> 93),   \* 81
    ("return" :> 95),   \* 82
    <<>>,   \* 83
    <<>>,   \* 84
    <<>>,   \* 85
    <<>>,   \* 86
    <<>>,   \* 87
    <<>>,   \* 88
    <<>>,   \* 89
    <<>>,   \* 90
    <<>>,   \* 91
    <<>>,   \* 92
    <<>>,   \* 93
    ("compound_type" :> 99 @@ "identifier" :> 26),   \* 94
    ("raise" :> 101),   \* 95
    <<>>,   \* 96
    <<>>,   \* 97
    ("kwarg" :> 103),   \* 98
    <<>>,   \* 99
    ("compound_type" :> 104 @@ "exception" :> 105 @@ "exceptions" :> 106 @@ "identifier" :> 26),   \* 100
    ("signature" :> 108),   \* 101
    <<>>,   \* 102
    <<>>,   \* 103
    <<>>,   \* 104
    <<>>,   \* 105
    <<>>,   \* 106
    <<>>,   \* 107
    <<>>,   \* 108
    ("compound_type" :> 104 @@ "exception" :> 111 @@ "identifier" :> 26),   \* 109
    <<>>,   \* 110
    <<>>   \* 111
  >>

(***************************************************************************)
(* yacc.yacc(start='defs'): ActionTable and GotoTable are the LALR(1)      *)
(* automaton of Productions.  ActionTable[s + 1][t] holds every action the *)
(* automaton has in state s on token t, as yacc writes them (j > 0: shift  *)
(* and go to state j; -n: reduce by rule n; 0: accept), before conflicts   *)
(* are resolved; GotoTable[s + 1][N] is the state entered from s on the    *)
(* nonterminal N.                                                          *)
(***************************************************************************)
NoPrec == [assoc |-> "right", level |-> 0]

\* Precedence.get(t, ('right', 0)): the level is the 1-based position of the
\* token's line in precedence.
TokenPrec(t) ==
  IF \E n \in DOMAIN precedence : precedence[n][2] = t
  THEN LET n == CHOOSE n \in DOMAIN precedence : precedence[n][2] = t
       IN  [assoc |-> precedence[n][1], level |-> n]
  ELSE NoPrec

\* A rule's precedence is that of its rightmost terminal.
RulePrec(n) ==
  LET rhs == Productions[n].rhs
      ts == {i \in DOMAIN rhs : rhs[i] \in tokens}
  IN  IF ts = {} THEN NoPrec
      ELSE TokenPrec(rhs[CHOOSE i \in ts : \A j \in ts : j <= i])

Shift(j) == [op |-> "shift", n |-> j]
Reduce(n) == [op |-> "reduce", n |-> n]
Accept == [op |-> "accept", n |-> 0]
Error == [op |-> "error", n |-> 0]

Decode(a) == IF a > 0 THEN Shift(a) ELSE IF a < 0 THEN Reduce(0 - a) ELSE Accept

\* yacc's resolution of a shift/reduce conflict on token t between a shift to
\* state j and a reduction by rule n.
ResolveSR(t, j, n) ==
  LET s == TokenPrec(t)
      r == RulePrec(n)
  IN  IF s.level < r.level \/ (s.level = r.level /\ r.assoc = "left")
      THEN Reduce(n)
      ELSE IF s.level = r.level /\ r.assoc = "nonassoc" THEN Error
      ELSE Shift(j)

\* The parser's action in state s on a token of type t: the entry of the
\* table yacc builds, with its conflicts resolved (a reduce/reduce conflict
\* goes to the rule defined first).
lr_action(s, t) ==
  LET row == ActionTable[s + 1]
      as == IF t \in DOMAIN row THEN row[t] ELSE {}
      shifts == {a \in as : a > 0}
      reduces == {a \in as : a < 0}
  IN  IF as = {} THEN Error
      ELSE IF reduces = {} \/ shifts = {}
      THEN Decode(CHOOSE a \in as : \A b \in as : b <= a)
      ELSE ResolveSR(t, CHOOSE a \in shifts : TRUE,
                     0 - (CHOOSE a \in reduces : \A b \in reduces : b <= a))

lr_goto(s, N) == GotoTable[s + 1][N]

(***************************************************************************)
(* Inputs.  A source text is written as a sequence of fragments; Text      *)
(* gives the characters of each.                                           *)
(***************************************************************************)
Text(f) ==
  CASE f = "def f(" -> <<"d", "e", "f", " ", "f", "(">>
    [] f = "def f()->" -> <<"d", "e", "f", " ", "f", "(", ")", "-", ">">>
    [] f = "def f() " -> <<"d", "e", "f", " ", "f", "(", ")", " ">>
    [] f = "def g() " -> <<"d", "e", "f", " ", "g", "(", ")", " ">>
    [] f = "x:A " -> <<"x", ":", "A", " ">>
    [] f = "class K:" -> <<"c", "l", "a", "s", "s", " ", "K", ":">>
    [] f = "class L:pass " ->
         <<"c", "l", "a", "s", "s", " ", "L", ":", "p", "a", "s", "s", " ">>
    [] f = "interface I:def m " ->
         <<"i", "n", "t", "e", "r", "f", "a", "c", "e", " ", "I", ":",
           "d", "e", "f", " ", "m", " ">>
    [] f = "C?" -> <<"C", "?">>
    [] f = "'s'" -> <<"'", "s", "'">>
    [] f = "D[E]" -> <<"D", "[", "E", "]">>
    [] f = "(A)" -> <<"(", "A", ")">>
    [] f = "A|B" -> <<"A", "|", "B">>
    [] f = "**" -> <<"*", "*">>
    [] f = "1.5" -> <<"1", ".", "5">>
    [] f = "#c" -> <<"#", "c">>
    [] f = "raise" -> <<"r", "a", "i", "s", "e">>
    [] f = "..." -> <<".", ".", ".">>
    [] f = "<=" -> <<"<", "=">>
    [] OTHER -> <<f>>

RECURSIVE Source(_)
Source(frags) ==
  IF frags = <<>> THEN <<>> ELSE Text(Head(frags)) \o Source(Tail(frags))

NoFile == [k |-> "None", s |-> ""]
File(s) == [k |-> "str", s |-> s]
Input(frags, filename) == [frags |-> frags, filename |-> filename]

SeqsUpTo(S, n) == UNION {[1..m -> S] : m \in 0..n}

\* One Parse call of each text, no file name given.
Single(texts) == {<<Input(t, NoFile)>> : t \in texts}

\* Texts that between them use every token rule and end in each way.
BaseTexts ==
  { <<"...", "def f(", "a", ":", "'s'", ",", "*", "b", ")", "-", ">", "1.5", " ",
      "raise", " ", "E", "@", "'s'", "#c", NL, "x:A ">>,
    <<"def f(", "a", ":", "-", "1", ")">>,
    <<"x:A ", "$">>,
    <<"x:A ", ")">>,
    <<"x", ":">>,
    <<"x", ":", "'", NL, "'">> }

(***************************************************************************)
(* State                                                                   *)
(***************************************************************************)
VARIABLES
  script,          \* the Parse calls the caller will make, in order
  calls,           \* how many of them have been made
  pc,              \* "idle" between calls, "parsing" inside parser.parse
  data,            \* PyParser.data
  filename,        \* PyParser.filename
  lexer_data,      \* PyLexer.data
  lexer_filename,  \* PyLexer.filename
  lexdata,         \* lex.Lexer: the text being scanned
  lexpos,          \* lex.Lexer: the offset of the next character
  lineno,          \* lex.Lexer: the line counter
  on_newline,      \* lexer.on_newline (FALSE: not set yet)
  statestack,      \* yacc: the stack of automaton states
  symstack,        \* yacc: the values of the symbols on the stack
  lookahead,       \* yacc: the token read and not yet shifted
  result,          \* what the last Parse call returned or raised
  fresh_lineno     \* the line counter of a lexer made new for this call

vars == <<script, calls, pc, data, filename, lexer_data, lexer_filename,
          lexdata, lexpos, lineno, on_newline, statestack, symstack,
          lookahead, result, fresh_lineno>>

NoTok == [type |-> "none", value |-> <<>>, lineno |-> 0, lexpos |-> 0]
EndTok == [type |-> "$end", value |-> <<>>, lineno |-> 0, lexpos |-> 0]
Token(type, value, line, pos) ==
  [type |-> type, value |-> value, lineno |-> line, lexpos |-> pos]

NoResult == [kind |-> "none"]
Returned(tree) == [kind |-> "returned", tree |-> tree]

\* SyntaxError(msg, (filename, lineno, offset, line))
SyntaxError(msg, file, line, offset, text) ==
  [kind |-> "raised", exc |-> "SyntaxError", msg |-> msg, filename |-> file,
   lineno |-> line, offset |-> offset, text |-> text]
\* p_error(None) reads None.lexpos
AttributeError == [kind |-> "raised", exc |-> "AttributeError"]
\* what eval raises in t_STRING
EvalError == [kind |-> "raised", exc |-> "SyntaxError from eval"]

make_syntax_error(d, file, msg, p) ==
  LET last_line_offset == rfind(d, NL, 0, p.lexpos) + 1
      line == partition_head(Slice(d, last_line_offset, Len(d)), NL)
  IN  SyntaxError(msg, file, p.lineno, p.lexpos - last_line_offset + 1, line)

\* The machine after PyParser(): lex.lex() starts the line counter at 1.
InitWith(scripts) ==
  /\ script \in scripts
  /\ calls = 0
  /\ pc = "idle"
  /\ data = <<>>
  /\ filename = ""
  /\ lexer_data = <<>>
  /\ lexer_filename = ""
  /\ lexdata = <<>>
  /\ lexpos = 0
  /\ lineno = 1
  /\ on_newline = FALSE
  /\ statestack = <<>>
  /\ symstack = <<>>
  /\ lookahead = NoTok
  /\ result = NoResult
  /\ fresh_lineno = 1

(***************************************************************************)
(* PyParser.Parse(data, filename): keeps the text and the name, hands them *)
(* to the lexer (set_parse_info), and runs parser.parse(data), which       *)
(* gives the text to the lexer (lexer.input) and empties its stacks.       *)
(***************************************************************************)
Parse ==
  /\ pc = "idle"
  /\ calls < Len(script)
  /\ LET inp == script[calls + 1]
         d == Source(inp.frags)
         f == IF inp.filename.k = "str" /\ inp.filename.s # ""
              THEN inp.filename.s ELSE "<string>"
     IN  /\ data' = d
         /\ filename' = f
         /\ lexer_data' = d
         /\ lexer_filename' = f
         /\ lexdata' = d
  /\ lexpos' = 0
  /\ statestack' = <<0>>
  /\ symstack' = <<>>
  /\ lookahead' = NoTok
  /\ result' = NoResult
  /\ calls' = calls + 1
  /\ pc' = "parsing"
  /\ fresh_lineno' = 1
  /\ UNCHANGED <<script, lineno, on_newline>>

(***************************************************************************)
(* lex.Lexer.token(), called when yacc has no lookahead: one action for    *)
(* each rule that can match at the next character that is not ignored.     *)
(***************************************************************************)
NeedToken == pc = "parsing" /\ lookahead.type = "none"
At == SkipIgnore(lexdata, lexpos)
Rule == IF At < Len(lexdata) THEN RuleAt(lexdata, At) ELSE "eof"

Emit(type, value, end) ==
  /\ lookahead' = Token(type, value, lineno, At)
  /\ lexpos' = end
  /\ UNCHANGED <<script, calls, pc, data, filename, lexer_data, lexer_filename,
                 lexdata, lineno, on_newline, statestack, symstack, result,
                 fresh_lineno>>

Raise(e) ==
  /\ result' = e
  /\ pc' = "idle"

\* The end of the text: token() returns None and yacc reads it as $end.
t_eof ==
  /\ NeedToken
  /\ Rule = "eof"
  /\ lookahead' = EndTok
  /\ lexpos' = At
  /\ UNCHANGED <<script, calls, pc, data, filename, lexer_data, lexer_filename,
                 lexdata, lineno, on_newline, statestack, symstack, result,
                 fresh_lineno>>

t_NAME ==
  /\ NeedToken
  /\ Rule = "t_NAME"
  /\ LET end == MatchNAME(lexdata, At)
         text == Slice(lexdata, At, end)
     IN  Emit(NameType(text), NameValue(text), end)

t_STRING ==
  /\ NeedToken
  /\ Rule = "t_STRING"
  /\ LET end == MatchSTRING(lexdata, At)
         text == Slice(lexdata, At, end)
     IN  IF EvalFails(text)
         THEN /\ Raise(EvalError)
              /\ lexpos' = end
              /\ UNCHANGED <<script, calls, data, filename, lexer_data,
                             lexer_filename, lexdata, lineno, on_newline,
                             statestack, symstack, lookahead, fresh_lineno>>
         ELSE Emit("STRING", StringValue(text), end)

t_NUMBER ==
  /\ NeedToken
  /\ Rule = "t_NUMBER"
  /\ LET end == MatchNUMBER(lexdata, At)
     IN  Emit("NUMBER", NumberValue(Slice(lexdata, At, end)), end)

\* No return value: the token is discarded.
t_COMMENT ==
  /\ NeedToken
  /\ Rule = "t_COMMENT"
  /\ lexpos' = MatchCOMMENT(lexdata, At)
  /\ UNCHANGED <<script, calls, pc, data, filename, lexer_data, lexer_filename,
                 lexdata, lineno, on_newline, statestack, symstack, lookahead,
                 result, fresh_lineno>>

t_newline ==
  /\ NeedToken
  /\ Rule = "t_newline"
  /\ LET end == Matchnewline(lexdata, At)
         n == count(Slice(lexdata, At, end), NL)
     IN  /\ lexpos' = end
         /\ lineno' = lineno + n
         /\ fresh_lineno' = fresh_lineno + n
  /\ on_newline' = TRUE
  /\ UNCHANGED <<script, calls, pc, data, filename, lexer_data, lexer_filename,
                 lexdata, statestack, symstack, lookahead, result>>

\* The rules given as strings (t_ARROW ... t_UNION).
t_literal ==
  /\ NeedToken
  /\ Rule = "literal"
  /\ LET lit == literals[MatchLiteral(lexdata, At)]
     IN  Emit(lit.type, lit.text, At + Len(lit.text))

\* No rule matches: t_error is called with a token whose value is the rest
\* of the text.
t_error ==
  /\ NeedToken
  /\ Rule = "t_error"
  /\ LET t == Token("error", Slice(lexdata, At, Len(lexdata)), lineno, At)
     IN  Raise(make_syntax_error(lexer_data, lexer_filename,
                                 <<"Illegal character", t.value[1]>>, t))
  /\ lexpos' = At
  /\ UNCHANGED <<script, calls, data, filename, lexer_data, lexer_filename,
                 lexdata, lineno, on_newline, statestack, symstack, lookahead,
                 fresh_lineno>>

(***************************************************************************)
(* yacc's parse loop, one action for each kind of table entry.             *)
(***************************************************************************)
HaveToken == pc = "parsing" /\ lookahead.type # "none"
Top == statestack[Len(statestack)]
Act == lr_action(Top, lookahead.type)

DoShift ==
  /\ HaveToken
  /\ Act.op = "shift"
  /\ statestack' = Append(statestack, Act.n)
  /\ symstack' = Append(symstack, lookahead.value)
  /\ lookahead' = NoTok
  /\ UNCHANGED <<script, calls, pc, data, filename, lexer_data, lexer_filename,
                 lexdata, lexpos, lineno, on_newline, result, fresh_lineno>>

DoReduce ==
  /\ HaveToken
  /\ Act.op = "reduce"
  /\ LET prod == Productions[Act.n]
         n == Len(prod.rhs)
         keep == Len(symstack) - n
         p == SubSeq(symstack, keep + 1, Len(symstack))
         below == SubSeq(statestack, 1, Len(statestack) - n)
     IN  /\ symstack' = Append(SubSeq(symstack, 1, keep),
                               SemanticAction(prod.name, p))
         /\ statestack' = Append(below, lr_goto(below[Len(below)], prod.lhs))
  /\ UNCHANGED <<script, calls, pc, data, filename, lexer_data, lexer_filename,
                 lexdata, lexpos, lineno, on_newline, lookahead, result,
                 fresh_lineno>>

\* The start rule is reduced and the text is at its end: parse returns the
\* value on top of the stack.
DoAccept ==
  /\ HaveToken
  /\ Act.op = "accept"
  /\ result' = Returned(symstack[Len(symstack)])
  /\ pc' = "idle"
  /\ UNCHANGED <<script, calls, data, filename, lexer_data, lexer_filename,
                 lexdata, lexpos, lineno, on_newline, statestack, symstack,
                 lookahead, fresh_lineno>>

\* No entry: yacc calls p_error with the token, or with None at the end of
\* the text.
p_error ==
  /\ HaveToken
  /\ Act.op = "error"
  /\ IF lookahead.type = "$end"
     THEN Raise(AttributeError)
     ELSE Raise(make_syntax_error(data, filename, <<"Parse error">>, lookahead))
  /\ UNCHANGED <<script, calls, data, filename, lexer_data, lexer_filename,
                 lexdata, lexpos, lineno, on_newline, statestack, symstack,
                 lookahead, fresh_lineno>>

Next ==
  \/ Parse
  \/ t_eof
  \/ t_NAME
  \/ t_STRING
  \/ t_NUMBER
  \/ t_COMMENT
  \/ t_newline
  \/ t_literal
  \/ t_error
  \/ DoShift
  \/ DoReduce
  \/ DoAccept
  \/ p_error

(***************************************************************************)
(* The inputs checked                                                      *)
(***************************************************************************)
MaxParamFrags == 6
MaxChain == 3
MaxArgs == 3
MaxDecls == 4
MaxErrFrags == 4
MaxReuseFrags == 2

\* Parameter lists: def f( ... ) with up to MaxParamFrags of a name, a comma
\* and an asterisk between the parentheses.
ParamFrags == {"a", ",", "*"}
ParamTexts ==
  {<<"def f(">> \o b \o <<")">> : b \in SeqsUpTo(ParamFrags, MaxParamFrags)}

\* Type expressions, as the return type of def f()->
Operands == {"A", "B", "C?", "1", "'s'", "D[E]"}
Ops == {"|", "&"}
Names == {"A", "B", "C"}

\* xs[1] os[1] xs[2] ... os[n-1] xs[n]
Interleave(xs, os) ==
  [i \in 1..(2 * Len(xs) - 1) |->
     IF i % 2 = 1 THEN xs[(i + 1) \div 2] ELSE os[i \div 2]]

\* Chains of 2..MaxChain operands with an operator between each two.
ChainTexts ==
  UNION {{<<"def f()->">> \o Interleave(xs, os) :
            xs \in [1..n -> Operands], os \in [1..(n - 1) -> Ops]} :
         n \in 2..MaxChain}

\* x o1 (y o2 z) and (x o1 y) o2 z
ParenTexts ==
  {<<"def f()->", x, o[1], "(", y, o[2], z, ")">> :
     x \in Names, y \in Names, z \in Names, o \in [1..2 -> Ops]}
  \cup
  {<<"def f()->", "(", x, o[1], y, ")", o[2], z>> :
     x \in Names, y \in Names, z \in Names, o \in [1..2 -> Ops]}

\* base [ arg , ... , arg ] with 0..MaxArgs arguments
Bases == {"A", "C?", "1", "'s'", "(A)", "D[E]", "A|B"}
ArgTypes == {"A", "B", "A|B"}
Commas(n) == [i \in 1..n |-> ","]
ArgList(args) ==
  IF args = <<>> THEN <<>> ELSE Interleave(args, Commas(Len(args) - 1))
BracketTexts ==
  {<<"def f()->", b, "[">> \o ArgList(args) \o <<"]">> :
     b \in Bases, args \in SeqsUpTo(ArgTypes, MaxArgs)}

TypeTexts == ChainTexts \cup ParenTexts \cup BracketTexts

\* Modules: up to MaxDecls top-level pieces.
ModuleFrags ==
  {"def f() ", "def g() ", "x:A ", "class K:", "class L:pass ",
   "interface I:def m "}
ModuleTexts == SeqsUpTo(ModuleFrags, MaxDecls)

\* Texts with errors in them, on several lines, parsed under each kind of
\* file name; and two calls in a row on one parser.
ErrFrags == {"x", ":", ")", NL, BQ, "#", "$", " "}
ReuseFrags == {"x", ":", ")", NL}
Filenames == {NoFile, File(""), File("m.pytd")}
ErrorScripts ==
  {<<Input(t, fn)>> : t \in SeqsUpTo(ErrFrags, MaxErrFrags), fn \in Filenames}
  \cup
  {<<Input(t[1], NoFile), Input(t[2], fn)>> :
     t \in [1..2 -> SeqsUpTo(ReuseFrags, MaxReuseFrags)], fn \in Filenames}

InitParams == InitWith(Single(ParamTexts \cup BaseTexts))
InitTypes == InitWith(Single(TypeTexts \cup BaseTexts))
InitModule == InitWith(Single(ModuleTexts \cup BaseTexts))
InitErrors == InitWith(ErrorScripts \cup Single(BaseTexts))
Init == InitParams \/ InitTypes \/ InitModule \/ InitErrors

SpecParams == InitParams /\ [][Next]_vars
SpecTypes == InitTypes /\ [][Next]_vars
SpecModule == InitModule /\ [][Next]_vars
SpecErrors == InitErrors /\ [][Next]_vars
Spec == Init /\ [][Next]_vars

(***************************************************************************)
(* Properties                                                              *)
(***************************************************************************)
\* The last Parse call has ended; Cur is its input.
Finished == pc = "idle" /\ calls > 0
Cur == script[calls]
Returns == Finished /\ result.kind = "returned"
Raises == Finished /\ result.kind = "raised"
ParseError == Raises /\ result.exc = "SyntaxError" /\ result.msg = <<"Parse error">>
\* The return type of the text's first function.
ReturnType == result.tree.funcdefs[1].return_type

\* The nodes the fragments of the type texts stand for.
Name(c) == BasicType(<<c>>)
OperandNode(f) ==
  CASE f = "C?" -> NoneAbleType(Name("C"))
    [] f = "1" -> ConstType([k |-> "int", num |-> 1])
    [] f = "'s'" -> ConstType(<<"s">>)
    [] f = "D[E]" -> GenericType1(Name("D"), Name("E"))
    [] f = "A|B" -> UnionType(<<Name("A"), Name("B")>>)
    [] OTHER -> Name(f)
Node(o, members) ==
  IF o = "|" THEN UnionType(members) ELSE IntersectionType(members)

\* The text is def f()-> x o x o ... x: operands with operators between them.
IsChain(frags) ==
  /\ Len(frags) >= 4
  /\ Len(frags) % 2 = 0
  /\ frags[1] = "def f()->"
  /\ \A i \in 2..Len(frags) :
       IF i % 2 = 0 THEN frags[i] \in Operands ELSE frags[i] \in Ops
ChainOperands(frags) == [i \in 1..(Len(frags) \div 2) |-> frags[2 * i]]
ChainOps(frags) == [i \in 1..(Len(frags) \div 2 - 1) |-> frags[2 * i + 1]]
SameOp(frags) == \A i \in DOMAIN ChainOps(frags) : ChainOps(frags)[i] = frags[3]

\* The text is def f()-> x o ( y o z ) with one operator o and three names.
IsRightParen(frags) ==
  /\ Len(frags) = 8
  /\ frags[1] = "def f()->"
  /\ frags[4] = "("
  /\ frags[8] = ")"
  /\ frags[3] \in Ops
  /\ frags[6] = frags[3]
  /\ {frags[2], frags[5], frags[7]} \subseteq Names

\* The text is def f()-> base [ args ].
IsBracket(frags) ==
  /\ Len(frags) >= 4
  /\ frags[1] = "def f()->"
  /\ frags[2] \in Bases
  /\ frags[3] = "["
  /\ frags[Len(frags)] = "]"
BracketArgs(frags) ==
  [i \in 1..((Len(frags) - 3) \div 2) |-> frags[2 * i + 2]]

\* Every type a tree's functions mention.
TypesOf(fn) ==
  <<fn.return_type>> \o [i \in DOMAIN fn.params |-> fn.params[i].type]
IsGeneric(t) == t.k \in {"GenericType1", "GenericType2"}

\* Every generic node of type t has a base of one of the kinds given.
RECURSIVE GenericBasesAre(_, _)
GenericBasesAre(t, kinds) ==
  CASE t.k \in {"UnionType", "IntersectionType"} ->
         \A i \in DOMAIN t.type_list : GenericBasesAre(t.type_list[i], kinds)
    [] t.k = "GenericType1" ->
         /\ t.base_type.k \in kinds
         /\ GenericBasesAre(t.base_type, kinds)
         /\ GenericBasesAre(t.type1, kinds)
    [] t.k = "GenericType2" ->
         /\ t.base_type.k \in kinds
         /\ GenericBasesAre(t.base_type, kinds)
         /\ GenericBasesAre(t.type1, kinds)
         /\ GenericBasesAre(t.type2, kinds)
    [] t.k = "NoneAbleType" -> GenericBasesAre(t.base_type, kinds)
    [] OTHER -> TRUE

\* No intersection node of type t has a union as a direct member.
RECURSIVE NoUnionInIntersection(_)
NoUnionInIntersection(t) ==
  CASE t.k = "UnionType" ->
         \A i \in DOMAIN t.type_list : NoUnionInIntersection(t.type_list[i])
    [] t.k = "IntersectionType" ->
         \A i \in DOMAIN t.type_list :
           /\ t.type_list[i].k # "UnionType"
           /\ NoUnionInIntersection(t.type_list[i])
    [] t.k = "GenericType1" ->
         NoUnionInIntersection(t.base_type) /\ NoUnionInIntersection(t.type1)
    [] t.k = "GenericType2" ->
         /\ NoUnionInIntersection(t.base_type)
         /\ NoUnionInIntersection(t.type1)
         /\ NoUnionInIntersection(t.type2)
    [] t.k = "NoneAbleType" -> NoUnionInIntersection(t.base_type)
    [] OTHER -> TRUE

----------------------------------------------------------------------------
\* C1: every parameter list the parser accepts holds at most one vararg and
\* at most one kwarg parameter, the vararg before the kwarg; the list
\* (**a, *a) is rejected with a parse error.
VarargsAt(params) == {i \in DOMAIN params : params[i].type.k = "VarArgType"}
KwargsAt(params) == {i \in DOMAIN params : params[i].type.k = "VarKeywordArgType"}
C1_VarargThenKwargAtMostOnce ==
  /\ Returns =>
       \A n \in DOMAIN result.tree.funcdefs :
         LET params == result.tree.funcdefs[n].params
         IN  /\ Cardinality(VarargsAt(params)) <= 1
             /\ Cardinality(KwargsAt(params)) <= 1
             /\ \A i \in VarargsAt(params), j \in KwargsAt(params) : i < j
  /\ (Finished /\ Cur.frags = <<"def f(", "*", "*", "a", ",", "*", "a", ")">>)
       => ParseError

----------------------------------------------------------------------------
\* C2 as stated: x o (y o z), with names x, y, z and o one of | and &, yields
\* a node of exactly two members, x and the node of y and z, kept nested.
C2_ParenOperandStaysNested ==
  (Finished /\ IsRightParen(Cur.frags)) =>
    /\ Returns
    /\ ReturnType =
         Node(Cur.frags[3],
              <<Name(Cur.frags[2]),
                Node(Cur.frags[3], <<Name(Cur.frags[5]), Name(Cur.frags[7])>>)>>)

\* C2 amended: x o (y o z), with names x, y, z and o one of | and &, yields
\* one flat node of exactly three members x, y, z in source order: the
\* parenthesized node is merged into the outer list.
C2_ParenOperandIsMerged ==
  (Finished /\ IsRightParen(Cur.frags)) =>
    /\ Returns
    /\ ReturnType =
         Node(Cur.frags[3],
              <<Name(Cur.frags[2]), Name(Cur.frags[5]), Name(Cur.frags[7])>>)

C2_Witness ==
  /\ Returns
  /\ Cur.frags = <<"def f()->", "A", "|", "(", "B", "|", "C", ")">>
  /\ ReturnType = UnionType(<<Name("A"), Name("B"), Name("C")>>)

----------------------------------------------------------------------------
\* C3: an unparenthesized chain of n >= 2 single operands (a name, a nullable
\* name, a constant, a generic) joined by one operator yields one flat node
\* whose members are exactly the operands in source order.
C3_ChainIsFlat ==
  (Finished /\ IsChain(Cur.frags) /\ SameOp(Cur.frags)) =>
    /\ Returns
    /\ ReturnType =
         Node(Cur.frags[3],
              [i \in DOMAIN ChainOperands(Cur.frags) |->
                 OperandNode(ChainOperands(Cur.frags)[i])])

----------------------------------------------------------------------------
\* C4: every Parse call that fails raises a syntax error that carries the
\* message, the source name ('<string>' when none is given), a line number,
\* a column and the line's text; nothing else is raised.
WantedFilename ==
  IF Cur.filename.k = "str" /\ Cur.filename.s # "" THEN Cur.filename.s
  ELSE "<string>"
C4_FailureIsSyntaxError ==
  /\ Finished => result.kind \in {"returned", "raised"}
  /\ Raises =>
       /\ result.exc = "SyntaxError"
       /\ result.filename = WantedFilename
       /\ result.lineno >= 1
       /\ result.offset >= 1

----------------------------------------------------------------------------
\* C5: on a parser used for several Parse calls in a row, the line number
\* reported for an error of any call is the one a new parser reports for
\* that text.
C5_LineNumberAsByNewParser ==
  (Raises /\ result.exc = "SyntaxError") => result.lineno = fresh_lineno

----------------------------------------------------------------------------
\* C6: a syntax error at the token at offset p reports the line number
\* 1 + (the newlines before p), the column p - (the offset of the line's
\* first character) + 1, and the line's text without its newline.
ErrPos == IF lookahead.type = "none" THEN lexpos ELSE lookahead.lexpos
NewlinesBefore(d, p) == Cardinality({i \in 0..(p - 1) : Ch(d, i) = NL})
LineStart(d, p) ==
  CHOOSE s \in 0..p :
    /\ \A i \in s..(p - 1) : Ch(d, i) # NL
    /\ s = 0 \/ Ch(d, s - 1) = NL
LineEnd(d, p) ==
  CHOOSE e \in p..Len(d) :
    /\ \A i \in p..(e - 1) : Ch(d, i) # NL
    /\ e = Len(d) \/ Ch(d, e) = NL
C6_ErrorPosition ==
  (Raises /\ result.exc = "SyntaxError") =>
    /\ result.lineno = 1 + NewlinesBefore(data, ErrPos)
    /\ result.offset = ErrPos - LineStart(data, ErrPos) + 1
    /\ result.text = Slice(data, LineStart(data, ErrPos), LineEnd(data, ErrPos))

----------------------------------------------------------------------------
\* C7: the module returned lists the functions declared before the first
\* class or interface, one class for each class declaration and one
\* interface for each interface declaration, each in source order; a
\* constant declaration is accepted and adds no entry.
IsModuleText(frags) == \A i \in DOMAIN frags : frags[i] \in ModuleFrags
DeclKind(f) ==
  CASE f \in {"def f() ", "def g() "} -> "def"
    [] f = "x:A " -> "constant"
    [] f \in {"class K:", "class L:pass "} -> "class"
    [] f = "interface I:def m " -> "interface"
DeclName(f) ==
  CASE f = "def f() " -> <<"f">>
    [] f = "def g() " -> <<"g">>
    [] f = "x:A " -> <<"x">>
    [] f = "class K:" -> <<"K">>
    [] f = "class L:pass " -> <<"L">>
    [] f = "interface I:def m " -> <<"I">>
\* The fragments before the first class or interface.
FuncBlock(frags) ==
  LET later == {i \in DOMAIN frags : DeclKind(frags[i]) \in {"class", "interface"}}
  IN  IF later = {} THEN frags
      ELSE SubSeq(frags, 1, (CHOOSE i \in later : \A j \in later : i <= j) - 1)
RECURSIVE NamesOfKind(_, _)
NamesOfKind(frags, kind) ==
  IF frags = <<>> THEN <<>>
  ELSE (IF DeclKind(Head(frags)) = kind THEN <<DeclName(Head(frags))>> ELSE <<>>)
       \o NamesOfKind(Tail(frags), kind)
NamesIn(list) == [i \in DOMAIN list |-> list[i].name]
C7_ModuleLists ==
  /\ (Returns /\ IsModuleText(Cur.frags)) =>
       /\ NamesIn(result.tree.funcdefs) = NamesOfKind(FuncBlock(Cur.frags), "def")
       /\ \A i \in DOMAIN result.tree.funcdefs :
            result.tree.funcdefs[i].k = "Function"
       /\ NamesIn(result.tree.classdefs) = NamesOfKind(Cur.frags, "class")
       /\ NamesIn(result.tree.interfacedefs) = NamesOfKind(Cur.frags, "interface")
  /\ (Finished /\ IsModuleText(Cur.frags)
        /\ \A i \in DOMAIN Cur.frags : DeclKind(Cur.frags[i]) \in {"def", "constant"})
       => Returns

C7_Witness ==
  /\ Returns
  /\ Cur.frags = <<"def f() ", "x:A ", "class K:", "interface I:def m ">>
  /\ NamesIn(result.tree.funcdefs) = <<<<"f">>>>
  /\ NamesIn(result.tree.classdefs) = <<<<"K">>>>
  /\ NamesIn(result.tree.interfacedefs) = <<<<"I">>>>

----------------------------------------------------------------------------
\* C8 as stated: the base of every generic in a returned tree is a plain
\* name, and a bracket after a nullable name, a constant, a parenthesized
\* type or a generic is rejected with a parse error.
AllGenericBasesAre(kinds) ==
  Returns =>
    \A n \in DOMAIN result.tree.funcdefs :
      \A i \in DOMAIN TypesOf(result.tree.funcdefs[n]) :
        GenericBasesAre(TypesOf(result.tree.funcdefs[n])[i], kinds)
C8_BaseIsPlainName ==
  /\ AllGenericBasesAre({"BasicType"})
  /\ (Finished /\ IsBracket(Cur.frags)
        /\ Cur.frags[2] \in {"C?", "1", "'s'", "(A)", "D[E]"}) => ParseError

\* C8 amended: the base of every generic in a returned tree is an identifier
\* of the grammar, that is a plain name, a nullable name or a string or
\* number constant; a bracket after a parenthesized type or after a generic
\* is rejected with a parse error.
C8_BaseIsIdentifier ==
  /\ AllGenericBasesAre({"BasicType", "NoneAbleType", "ConstType"})
  /\ (Finished /\ IsBracket(Cur.frags) /\ Cur.frags[2] \in {"(A)", "D[E]"})
       => ParseError

C8_Witness ==
  /\ Returns
  /\ Cur.frags = <<"def f()->", "C?", "[", "A", "]">>
  /\ ReturnType = GenericType1(NoneAbleType(Name("C")), Name("A"))

----------------------------------------------------------------------------
\* C9: a bracket with one argument yields a 1-argument generic (base, type1),
\* with two a 2-argument generic (base, type1, type2) in source order; a
\* bracket with no argument or with three or more is rejected with a parse
\* error.
IdentifierBases == {"A", "C?", "1", "'s'"}
C9_GenericArity ==
  (Finished /\ IsBracket(Cur.frags) /\ Cur.frags[2] \in IdentifierBases) =>
    LET base == OperandNode(Cur.frags[2])
        args == BracketArgs(Cur.frags)
    IN  CASE Len(args) = 1 ->
               /\ Returns
               /\ ReturnType = GenericType1(base, OperandNode(args[1]))
          [] Len(args) = 2 ->
               /\ Returns
               /\ ReturnType =
                    GenericType2(base, OperandNode(args[1]), OperandNode(args[2]))
          [] OTHER -> ParseError

C9_Witness ==
  /\ Returns
  /\ Cur.frags = <<"def f()->", "A", "[", "A|B", ",", "B", "]">>
  /\ ReturnType =
       GenericType2(Name("A"), UnionType(<<Name("A"), Name("B")>>), Name("B"))

----------------------------------------------------------------------------
\* C10: without parentheses, & binds tighter than | and both associate to
\* the left: x | y & z is the union of x and the intersection of y and z,
\* x & y | z the union of the intersection of x and y and z, a chain of one
\* operator is grouped from the left (seen when its third operand is not a
\* plain name), and no intersection has a union as a direct member.
C10_Precedence ==
  (Finished /\ IsChain(Cur.frags)) =>
    /\ Returns
    /\ NoUnionInIntersection(ReturnType)
    /\ Len(Cur.frags) = 6 =>
         LET x == OperandNode(Cur.frags[2])
             y == OperandNode(Cur.frags[4])
             z == OperandNode(Cur.frags[6])
             o1 == Cur.frags[3]
             o2 == Cur.frags[5]
         IN  /\ (o1 = "|" /\ o2 = "&") =>
                  ReturnType = UnionType(<<x, IntersectionType(<<y, z>>)>>)
             /\ (o1 = "&" /\ o2 = "|") =>
                  ReturnType = UnionType(<<IntersectionType(<<x, y>>), z>>)
             /\ (o1 = o2 /\ z.k # "BasicType") =>
                  ReturnType = Node(o1, <<Node(o1, <<x, y>>), z>>)

C10_Witness ==
  /\ Returns
  /\ Cur.frags = <<"def f()->", "A", "|", "B", "&", "C?">>
  /\ ReturnType =
       UnionType(<<Name("A"),
                   IntersectionType(<<Name("B"), NoneAbleType(Name("C"))>>)>>)

====
